---- MODULE Spec2Model ----
(***************************************************************************)
(* Custodial wallet ledger of apps/wallet: one (user, currency) wallet,    *)
(* its withdrawal transactions, the 24h withdrawal counter, one deposit    *)
(* address and the blockchain adapter seen through its outcomes.           *)
(*                                                                         *)
(* Amounts are integers counted in the smallest unit of the currency       *)
(* (DecimalField, decimal_places=8).  The currency is a single-network     *)
(* coin (BTC/ETH), so the USDT network branches are not taken.             *)
(*                                                                         *)
(* ORM objects are local copies: a handler reads a row, changes its copy   *)
(* and save() writes the whole row back.  Handlers that read, wait and     *)
(* write are split at that point; no handler opens a database transaction  *)
(* or takes a row lock.                                                    *)
(*                                                                         *)
(* The views address the withdrawal counter as limit_24h / used_24h; the   *)
(* model keeps one counter row under those names.  Adapter calls are       *)
(* modelled by the outcomes blockchain.py can produce (a hash, a           *)
(* ValueError, a ConnectionError; the status strings of                    *)
(* get_transaction_status).  tasks.py passes network= and memo= to         *)
(* send_transaction and network= to get_transaction_status, which          *)
(* blockchain.py does not declare; the calls are taken as reaching the     *)
(* adapter.  Where they raise TypeError instead, process_withdrawal takes  *)
(* its failure path and the monitor skips the row: both are behaviours of  *)
(* this model.                                                             *)
(***************************************************************************)
EXTENDS Integers, FiniteSets, Sequences, TLC

\* ---- bounds ----
MaxTx == 2
MaxAmount == 2
MaxChain == 2
MaxBalance == 3
MaxInFlight == 2
LimitAmount == 2
MinWithdrawal == 1
MaxConfirmations == 13
MaxSends == 3
MaxAddresses == 6

\* ---- program constants ----
max_retries == 3

\* seconds between two polls of the deposit monitor (ETH), and after an error
check_interval == 600
error_interval == 900

\* Currency.confirmations_required (field default), and the depth at which the
\* Ethereum adapter reports "confirmed"
confirmations_required == 6
eth_confirmations == 12

\* active deposit addresses a user may have for one currency
max_active_addresses == 5

TxIds == 1..MaxTx
Amounts == 0..(MaxAmount + 1)

\* Transaction.STATUS_CHOICES
STATUS_CHOICES == {"pending", "completed", "failed", "canceled", "rejected", "processing"}

\* values of status_info['status'] returned by get_transaction_status
AdapterStatus == {"pending", "confirmed", "failed", "not_found", "error"}

\* what the status column of a row can hold ("none": no row yet)
StoredStatus == {"none"} \cup STATUS_CHOICES \cup AdapterStatus

NoHash == "none"
Hash == "hash"

VARIABLES
    wallet,     \* Wallet row: [balance, locked]
    limit,      \* WithdrawalLimit row: [limit_24h, used_24h, expired (reset_at < now)]
    tx,         \* Transaction rows: TxIds -> [status, amount, txid]
    cr,         \* TransactionViewSet.create in flight, per row it will create
    cn,         \* TransactionViewSet.cancel in flight: per row and txid read, how many
    task,       \* process_withdrawal task of each row
    chain,      \* on-chain balance of the deposit address
    da,         \* DepositAddress row and its monitor: [is_active, reusable, primary,
                \* is_archived, interval, local, pc, observed]
    err,        \* last error response of the transaction API
    released,   \* history: how often tx's amount was taken out of locked
    node,       \* the chain's view of the sent transaction:
                \* [currency, mined, reverted, confirmations]
    hot,        \* hot-wallet account: [count, nonce, signed], nonce and signed per task
    dlv,        \* deliveries of the process_withdrawal task of row 1, one per worker:
                \* [pc, retries], and sent, how often the adapter returned a hash
    addrs       \* the user's DepositAddress rows of one currency: [row], and checked,
                \* the creation requests between validation and insert

vars == <<wallet, limit, tx, cr, cn, task, chain, da, err, released, node, hot, dlv,
          addrs>>

\* ---- Wallet ----

available_balance(w) == w.balance - w.locked

\* faulty variant: the lock also debits the balance
lock_funds_debit(w, a) == [w EXCEPT !.locked = @ + a, !.balance = @ - a]

\* views.py create: wallet.locked += amount
lock_funds(w, a) == [w EXCEPT !.locked = @ + a]

\* tasks.py process_withdrawal, success path
settle_locked(w, a) ==
    IF w.locked >= a THEN [w EXCEPT !.locked = @ - a] ELSE w

\* tasks.py process_withdrawal, failure path
release_locked_to_balance(w, a) ==
    IF w.locked >= a
    THEN [w EXCEPT !.locked = @ - a, !.balance = @ + a]
    ELSE w

\* views.py cancel
cancel_release(w, a) == [w EXCEPT !.locked = @ - a, !.balance = @ + a]

\* views.py status, 'confirmed'
confirm_unlock(w, a) == [w EXCEPT !.locked = @ - a]

\* the history counters stop at "more than once"
Count(n) == IF n < 2 THEN n + 1 ELSE n

InBounds(w) ==
    /\ w.balance \in 0..MaxBalance
    /\ w.locked \in (0 - MaxBalance)..MaxBalance

NoRow == [status |-> "none", amount |-> 0, txid |-> NoHash]
IdleCreate == [pc |-> "idle", amount |-> 0, balance |-> 0, locked |-> 0, used |-> 0]
NoTask == [pc |-> "none", retries |-> 0, txid |-> NoHash]
\* a handler that has returned keeps no copies
DoneCreate == [IdleCreate EXCEPT !.pc = "done"]
DoneTask == [NoTask EXCEPT !.pc = "done"]
DeadTask == [NoTask EXCEPT !.pc = "dead"]
NoError == [op |-> "none", code |-> "none", amount |-> 0]
Sends == 1..MaxSends
NoSends == [count |-> 0, nonce |-> [t \in Sends |-> -1],
            signed |-> [t \in Sends |-> FALSE], included |-> [t \in Sends |-> FALSE]]

NoDeliveries == [pc |-> [w \in Sends |-> "none"], retries |-> [w \in Sends |-> 0],
                 sent |-> 0]

AddressIds == 1..MaxAddresses
NoAddresses == [row |-> [i \in AddressIds |-> "none"], checked |-> 0]

\* faulty variant: the row is stored as it is
WithdrawalLimit_save_stale(l) == l

\* WithdrawalLimit.save: remaining_amount is recomputed, then the row is stored
WithdrawalLimit_save(l) ==
    [l EXCEPT !.remaining = l.limit_24h - l.used_24h]

Init ==
    /\ wallet = [balance |-> 0, locked |-> 0]
    /\ limit = [limit_24h |-> LimitAmount, used_24h |-> 0, expired |-> FALSE,
                remaining |-> LimitAmount]
    /\ tx = [t \in TxIds |-> NoRow]
    /\ cr = [t \in TxIds |-> IdleCreate]
    /\ cn = [t \in TxIds |-> [x \in {NoHash, Hash} |-> 0]]
    /\ task = [t \in TxIds |-> NoTask]
    /\ chain = 0
    /\ da = [is_active |-> TRUE, reusable |-> TRUE, primary |-> TRUE,
             interval |-> check_interval,
             is_archived |-> FALSE, local |-> TRUE, pc |-> "poll",
             observed |-> 0]
    /\ err = NoError
    /\ released = [t \in TxIds |-> 0]
    /\ node = [currency |-> "ETH", required |-> confirmations_required, mined |-> FALSE,
               reverted |-> FALSE, confirmations |-> 0, answer |-> "none"]
    /\ hot = NoSends
    /\ dlv = NoDeliveries
    /\ addrs = NoAddresses

\* ---- chain ----

\* funds arrive at the deposit address
ChainReceive(d) ==
    /\ chain + d <= MaxChain
    /\ chain' = chain + d
    /\ UNCHANGED <<wallet, limit, tx, cr, cn, task, da, err, released, node, hot, dlv, addrs>>

\* ---- deposit monitor: one iteration of the loop of check_deposit_status ----

deposited_amount(current_balance, w) ==
    IF da.primary THEN current_balance - w.balance ELSE current_balance

check_deposit_status ==
    /\ da.is_active
    /\ LET amt == deposited_amount(chain, wallet)
           w2 == IF chain > 0 /\ amt > 0
                 THEN [wallet EXCEPT !.balance = @ + amt]
                 ELSE wallet
       IN /\ InBounds(w2)
          /\ wallet' = w2
          /\ da' = IF chain > 0 /\ ~da.reusable
                   THEN [da EXCEPT !.is_active = FALSE]
                   ELSE [da EXCEPT !.interval = check_interval]
          /\ (wallet' # wallet \/ da' # da)
    /\ UNCHANGED <<limit, tx, cr, cn, task, chain, err, released, node, hot, dlv, addrs>>

\* faulty variant: a failed balance query ends the monitoring of the address
check_deposit_status_error_stops ==
    /\ da.is_active
    /\ da' = [da EXCEPT !.is_active = FALSE, !.interval = error_interval]
    /\ UNCHANGED <<wallet, limit, tx, cr, cn, task, chain, err, released, node, hot, dlv, addrs>>

\* get_address_balance raises: the iteration is abandoned at the query, the
\* loop sleeps the longer interval and goes on
check_deposit_status_error ==
    /\ da.is_active
    /\ da' = [da EXCEPT !.interval = error_interval]
    /\ UNCHANGED <<wallet, limit, tx, cr, cn, task, chain, err, released, node, hot, dlv, addrs>>

\* ---- the loop of check_deposit_status step by step, next to the operator ----
\* da.local is the task's copy of is_active, da.pc where the loop stands,
\* da.observed the on-chain balance the latest successful query returned

\* the while condition holds on the task's copy; the balance is queried, a
\* positive deposited amount is credited; a one-shot address is deactivated and
\* the loop left, otherwise the task's copy of the row is saved and the loop
\* sleeps
loop_poll ==
    /\ da.pc = "poll"
    /\ da.local
    /\ LET amt == deposited_amount(chain, wallet)
           w2 == IF chain > 0 /\ amt > 0
                 THEN [wallet EXCEPT !.balance = @ + amt]
                 ELSE wallet
       IN /\ InBounds(w2)
          /\ wallet' = w2
          /\ da' = IF chain > 0 /\ ~da.reusable
                   THEN [da EXCEPT !.is_active = FALSE, !.is_archived = FALSE,
                                   !.local = FALSE, !.pc = "stopped",
                                   !.observed = chain]
                   ELSE [da EXCEPT !.is_active = da.local, !.is_archived = FALSE,
                                   !.interval = check_interval, !.pc = "sleep",
                                   !.observed = chain]
    /\ UNCHANGED <<limit, tx, cr, cn, task, chain, err, released, node, hot, dlv, addrs>>

\* the query raises: the loop sleeps the longer interval and continues with the
\* while condition, on the task's copy
loop_error ==
    /\ da.pc = "poll"
    /\ da.local
    /\ da' = [da EXCEPT !.interval = error_interval]
    /\ UNCHANGED <<wallet, limit, tx, cr, cn, task, chain, err, released, node, hot, dlv, addrs>>

\* the sleep ends: refresh_from_db, and the loop is left if the row is inactive
loop_wake ==
    /\ da.pc = "sleep"
    /\ da' = [da EXCEPT !.local = da.is_active,
                        !.pc = IF da.is_active THEN "poll" ELSE "stopped"]
    /\ UNCHANGED <<wallet, limit, tx, cr, cn, task, chain, err, released, node, hot, dlv, addrs>>

\* DepositAddressAdmin.archive_addresses: queryset.update on the stored row
archive_addresses ==
    /\ ~da.is_archived
    /\ da' = [da EXCEPT !.is_active = FALSE, !.is_archived = TRUE]
    /\ UNCHANGED <<wallet, limit, tx, cr, cn, task, chain, err, released, node, hot, dlv, addrs>>

\* ---- WithdrawalLimit.reset_at ----

\* the clock passes reset_at; no code resets used or moves reset_at
reset_at_passes ==
    /\ ~limit.expired
    /\ limit' = [limit EXCEPT !.expired = TRUE]
    /\ UNCHANGED <<wallet, tx, cr, cn, task, chain, da, err, released, node, hot, dlv, addrs>>

\* ---- WalletViewSet._sync_blockchain_balances ----

_sync_blockchain_balances ==
    /\ da.primary
    /\ wallet.balance # chain
    /\ wallet' = [wallet EXCEPT !.balance = chain]
    /\ UNCHANGED <<limit, tx, cr, cn, task, chain, da, err, released, node, hot, dlv, addrs>>

\* requests between their checks and their writes
InFlight ==
    LET RECURSIVE Sum(_)
        Sum(n) == IF n = 0 THEN 0
                  ELSE Sum(n - 1) + cn[n][NoHash] + cn[n][Hash]
                       + (IF cr[n].pc = "checked" THEN 1 ELSE 0)
    IN Sum(MaxTx)

\* ---- TransactionViewSet.create (type withdrawal) ----

\* faulty variant: the balance check refuses the whole available balance
create_error_strict(kind, a, valid, w, lim) ==
    IF kind = "deposit" THEN "deposit"
    ELSE IF available_balance(w) <= a THEN "insufficient"
    ELSE IF ~lim.expired /\ lim.used_24h + a > lim.limit_24h THEN "limit"
    ELSE IF ~valid THEN "address"
    ELSE IF a < MinWithdrawal THEN "min"
    ELSE IF lim.used_24h + a > lim.limit_24h THEN "limit"
    ELSE "ok"

\* faulty variant: the withdrawal counter is not looked at
create_error_nolimit(kind, a, valid, w, lim) ==
    IF kind = "deposit" THEN "deposit"
    ELSE IF available_balance(w) < a THEN "insufficient"
    ELSE IF ~valid THEN "address"
    ELSE IF a < MinWithdrawal THEN "min"
    ELSE "ok"

\* CreateTransactionSerializer.validate followed by the checks of the view;
\* the first failing check decides the error.  The serializer only looks at a
\* counter whose reset_at is not yet passed, the view looks at it always.
create_error(kind, a, valid, w, lim) ==
    IF kind = "deposit" THEN "deposit"
    ELSE IF available_balance(w) < a THEN "insufficient"
    ELSE IF ~lim.expired /\ lim.used_24h + a > lim.limit_24h THEN "limit"
    ELSE IF ~valid THEN "address"
    ELSE IF a < MinWithdrawal THEN "min"
    ELSE IF lim.used_24h + a > lim.limit_24h THEN "limit"
    ELSE "ok"

\* rows are created in the order of their ids
NextRow(t) == cr[t].pc = "idle" /\ \A u \in TxIds : u < t => cr[u].pc # "idle"

\* the request is validated against the rows as read; an accepted request
\* keeps its copies of the wallet and of the counter
create_check(t, kind, a, valid) ==
    /\ NextRow(t)
    /\ InFlight < MaxInFlight
    /\ create_error(kind, a, valid, wallet, limit) = "ok"
    /\ cr' = [cr EXCEPT ![t] = [pc |-> "checked", amount |-> a,
                                balance |-> wallet.balance, locked |-> wallet.locked,
                                used |-> limit.used_24h]]
    /\ UNCHANGED <<wallet, limit, tx, cn, task, chain, da, err, released, node, hot, dlv, addrs>>

\* faulty variant: the funds are locked before the request is validated
create_reject_locking(kind, a, valid) ==
    /\ create_error(kind, a, valid, wallet, limit) # "ok"
    /\ err' = [op |-> "create", code |-> create_error(kind, a, valid, wallet, limit), amount |-> a]
    /\ err' # err
    /\ wallet' = lock_funds(wallet, a)
    /\ InBounds(wallet')
    /\ UNCHANGED <<limit, tx, cr, cn, task, chain, da, released, node, hot, dlv, addrs>>

\* the request is answered with the error; nothing is written
create_reject(kind, a, valid) ==
    /\ create_error(kind, a, valid, wallet, limit) # "ok"
    /\ err' = [op |-> "create", code |-> create_error(kind, a, valid, wallet, limit), amount |-> a]
    /\ err' # err
    /\ UNCHANGED <<wallet, limit, tx, cr, cn, task, chain, da, released, node, hot, dlv, addrs>>

\* lock the funds, create the row, queue the task, raise the counter
create_commit(t) ==
    /\ cr[t].pc = "checked"
    /\ LET a == cr[t].amount
           w2 == lock_funds([balance |-> cr[t].balance, locked |-> cr[t].locked], a)
       IN /\ InBounds(w2)
          /\ wallet' = w2
          /\ tx' = [tx EXCEPT ![t] = [status |-> "pending", amount |-> a, txid |-> NoHash]]
          /\ task' = [task EXCEPT ![t] = [pc |-> "queued", retries |-> 0, txid |-> NoHash]]
          /\ limit' = WithdrawalLimit_save([limit EXCEPT !.used_24h = cr[t].used + a])
    /\ cr' = [cr EXCEPT ![t] = DoneCreate]
    /\ UNCHANGED <<cn, chain, da, err, released, node, hot, dlv, addrs>>

\* wallet.save() stored the lock, then Transaction.objects.create raised: the
\* exception leaves the view, which has no handler and no transaction.atomic
create_record_fails(t) ==
    /\ cr[t].pc = "checked"
    /\ LET w2 == lock_funds([balance |-> cr[t].balance, locked |-> cr[t].locked],
                            cr[t].amount)
       IN /\ InBounds(w2)
          /\ wallet' = w2
    /\ cr' = [cr EXCEPT ![t] = IdleCreate]
    /\ UNCHANGED <<limit, tx, cn, task, chain, da, err, released, node, hot, dlv, addrs>>

\* ---- TransactionViewSet.cancel ----

\* get_object and the status check; the handler keeps its copy of the row
cancel_check(t) ==
    /\ InFlight < MaxInFlight
    /\ tx[t].status = "pending"
    /\ cn' = [cn EXCEPT ![t][tx[t].txid] = @ + 1]
    /\ UNCHANGED <<wallet, limit, tx, cr, task, chain, da, err, released, node, hot, dlv, addrs>>

cancel_reject(t) ==
    /\ tx[t].status \notin {"none", "pending"}
    /\ err' = [op |-> "cancel", code |-> "not_pending", amount |-> tx[t].amount]
    /\ err' # err
    /\ UNCHANGED <<wallet, limit, tx, cr, cn, task, chain, da, released, node, hot, dlv, addrs>>

\* faulty variant: the cancel leaves the withdrawal counter as it is
cancel_apply_keep_limit(t, txid) ==
    /\ cn[t][txid] > 0
    /\ LET a == tx[t].amount
           w2 == cancel_release(wallet, a)
       IN /\ InBounds(w2)
          /\ wallet' = w2
          /\ tx' = [tx EXCEPT ![t] = [status |-> "canceled", amount |-> a, txid |-> txid]]
          /\ released' = [released EXCEPT ![t] = Count(@)]
    /\ cn' = [cn EXCEPT ![t][txid] = @ - 1]
    /\ UNCHANGED <<limit, cr, task, chain, da, err, node, hot, dlv, addrs>>

\* return the funds, lower the counter, store 'canceled'; txid is the one
\* the handler read
cancel_apply(t, txid) ==
    /\ cn[t][txid] > 0
    /\ LET a == tx[t].amount
           w2 == cancel_release(wallet, a)
       IN /\ InBounds(w2)
          /\ wallet' = w2
          /\ limit' = WithdrawalLimit_save([limit EXCEPT !.used_24h = @ - a])
          /\ tx' = [tx EXCEPT ![t] = [status |-> "canceled", amount |-> a, txid |-> txid]]
          /\ released' = [released EXCEPT ![t] = Count(@)]
    /\ cn' = [cn EXCEPT ![t][txid] = @ - 1]
    /\ UNCHANGED <<cr, task, chain, da, err, node, hot, dlv, addrs>>

\* ---- process_withdrawal ----

\* Transaction.objects.get and the checks before the adapter is called
pw_load(t) ==
    /\ task[t].pc = "queued"
    /\ task' = [task EXCEPT ![t] =
                  IF tx[t].status # "pending"
                  THEN DoneTask
                  ELSE [@ EXCEPT !.pc = "sending", !.txid = tx[t].txid]]
    /\ UNCHANGED <<wallet, limit, tx, cr, cn, chain, da, err, released, node, hot, dlv, addrs>>

\* send_transaction returned a hash
pw_success(t) ==
    /\ task[t].pc = "sending"
    /\ LET a == tx[t].amount
       IN /\ wallet' = settle_locked(wallet, a)
          /\ released' = [released EXCEPT ![t] = IF wallet.locked >= a THEN Count(@) ELSE @]
          /\ tx' = [tx EXCEPT ![t] = [status |-> "completed", amount |-> a, txid |-> Hash]]
    /\ task' = [task EXCEPT ![t] = DoneTask]
    /\ UNCHANGED <<limit, cr, cn, chain, da, err, node, hot, dlv, addrs>>

\* send_transaction raised an error that is not retried
pw_failure(t) ==
    /\ task[t].pc = "sending"
    /\ LET a == tx[t].amount
           w2 == release_locked_to_balance(wallet, a)
       IN /\ InBounds(w2)
          /\ wallet' = w2
          /\ released' = [released EXCEPT ![t] = IF wallet.locked >= a THEN Count(@) ELSE @]
          /\ tx' = [tx EXCEPT ![t] = [status |-> "failed", amount |-> a, txid |-> task[t].txid]]
    /\ task' = [task EXCEPT ![t] = DoneTask]
    /\ UNCHANGED <<limit, cr, cn, chain, da, err, node, hot, dlv, addrs>>

\* send_transaction raised ConnectionError or TimeoutError: self.retry(exc=e)
\* re-queues the task, and re-raises e once max_retries is used up
pw_retry(t) ==
    /\ task[t].pc = "sending"
    /\ task' = [task EXCEPT ![t] =
                  IF @.retries + 1 > max_retries
                  THEN DeadTask
                  ELSE [@ EXCEPT !.pc = "queued", !.retries = @ + 1]]
    /\ UNCHANGED <<wallet, limit, tx, cr, cn, chain, da, err, released, node, hot, dlv, addrs>>

\* ---- TransactionViewSet.status ----

status(t, s) ==
    /\ tx[t].status # "none"
    /\ tx[t].txid # NoHash
    /\ s # tx[t].status
    /\ tx' = [tx EXCEPT ![t].status = s]
    /\ IF s = "confirmed"
       THEN /\ wallet' = confirm_unlock(wallet, tx[t].amount)
            /\ InBounds(wallet')
            /\ released' = [released EXCEPT ![t] = Count(@)]
       ELSE UNCHANGED <<wallet, released>>
    /\ UNCHANGED <<limit, cr, cn, task, chain, da, err, node, hot, dlv, addrs>>

\* ---- monitor_transaction_statuses, one row of the scan ----

monitor_transaction_statuses(t, s) ==
    /\ tx[t].status \in {"pending", "processing"}
    /\ tx[t].txid # NoHash
    /\ s # tx[t].status
    /\ tx' = [tx EXCEPT ![t].status = s]
    /\ IF s = "completed" /\ wallet.locked >= tx[t].amount
       THEN /\ wallet' = [wallet EXCEPT !.locked = @ - tx[t].amount]
            /\ released' = [released EXCEPT ![t] = Count(@)]
       ELSE UNCHANGED <<wallet, released>>
    /\ UNCHANGED <<limit, cr, cn, task, chain, da, err, node, hot, dlv, addrs>>

\* ---- process_withdrawal, the except block with the adapter's exceptions ----

\* why send_transaction did not return a hash
SendCauses == {"invalid_address", "insufficient_funds", "rejected", "unreachable"}

\* the exception blockchain.py raises: parameter validation and "insufficient
\* funds" raise ValueError, every other error of the node is wrapped into
\* ConnectionError
send_exception(cause) ==
    IF cause \in {"invalid_address", "insufficient_funds"}
    THEN "ValueError"
    ELSE "ConnectionError"

\* isinstance(e, (ConnectionError, TimeoutError))
is_transient(exc) == exc \in {"ConnectionError", "TimeoutError"}

\* the error is logged, then retried or handled by the failure path
pw_error(t, cause) ==
    /\ task[t].pc = "sending"
    /\ err' = [op |-> "send", code |-> cause, amount |-> tx[t].amount]
    /\ IF is_transient(send_exception(cause))
       THEN /\ task' = [task EXCEPT ![t] =
                         IF @.retries + 1 > max_retries
                         THEN DeadTask
                         ELSE [@ EXCEPT !.pc = "queued", !.retries = @ + 1]]
            /\ UNCHANGED <<wallet, tx, released>>
       ELSE LET a == tx[t].amount
                w2 == release_locked_to_balance(wallet, a)
            IN /\ InBounds(w2)
               /\ wallet' = w2
               /\ released' = [released EXCEPT ![t] =
                                 IF wallet.locked >= a THEN Count(@) ELSE @]
               /\ tx' = [tx EXCEPT ![t] = [status |-> "failed", amount |-> a,
                                           txid |-> task[t].txid]]
               /\ task' = [task EXCEPT ![t] = DoneTask]
    /\ UNCHANGED <<limit, cr, cn, chain, da, node, hot, dlv, addrs>>

\* ---- TransactionAdmin actions: queryset.filter(status='pending').update ----

mark_as_completed(t) ==
    /\ tx[t].status = "pending"
    /\ tx' = [tx EXCEPT ![t].status = "completed"]
    /\ UNCHANGED <<wallet, limit, cr, cn, task, chain, da, err, released, node, hot, dlv, addrs>>

mark_as_failed(t) ==
    /\ tx[t].status = "pending"
    /\ tx' = [tx EXCEPT ![t].status = "failed"]
    /\ UNCHANGED <<wallet, limit, cr, cn, task, chain, da, err, released, node, hot, dlv, addrs>>

\* the handlers that write the ledger
Next ==
    \/ \E d \in 1..MaxChain : ChainReceive(d)
    \/ check_deposit_status
    \/ _sync_blockchain_balances
    \/ \E t \in TxIds, a \in Amounts : create_check(t, "withdrawal", a, TRUE)
    \/ \E t \in TxIds : create_commit(t)
    \/ \E t \in TxIds : cancel_check(t)
    \/ \E t \in TxIds, x \in {NoHash, Hash} : cancel_apply(t, x)
    \/ \E t \in TxIds : pw_load(t)
    \/ \E t \in TxIds : pw_success(t)
    \/ \E t \in TxIds : pw_failure(t)
    \/ \E t \in TxIds : pw_retry(t)
    \/ \E t \in TxIds, s \in AdapterStatus : status(t, s)
    \/ \E t \in TxIds, s \in AdapterStatus : monitor_transaction_statuses(t, s)

Spec == Init /\ [][Next]_vars

\* the transaction API with its error responses
NextApi ==
    \/ \E d \in 1..MaxChain : ChainReceive(d)
    \/ check_deposit_status
    \/ \E t \in TxIds, a \in Amounts : create_check(t, "withdrawal", a, TRUE)
    \/ \E kind \in {"withdrawal", "deposit"}, a \in Amounts, valid \in BOOLEAN :
          create_reject(kind, a, valid)
    \/ \E t \in TxIds : create_commit(t)
    \/ \E t \in TxIds : cancel_check(t)
    \/ \E t \in TxIds : cancel_reject(t)
    \/ \E t \in TxIds, x \in {NoHash, Hash} : cancel_apply(t, x)

SpecApi == Init /\ [][NextApi]_vars

\* the worker with the adapter's errors, and the admin actions
NextWorker ==
    \/ \E d \in 1..MaxChain : ChainReceive(d)
    \/ check_deposit_status
    \/ \E t \in TxIds, a \in Amounts : create_check(t, "withdrawal", a, TRUE)
    \/ \E t \in TxIds : create_commit(t)
    \/ \E t \in TxIds : pw_load(t)
    \/ \E t \in TxIds : pw_success(t)
    \/ \E t \in TxIds, cause \in SendCauses : pw_error(t, cause)
    \/ \E t \in TxIds : mark_as_completed(t)
    \/ \E t \in TxIds : mark_as_failed(t)

SpecWorker == Init /\ [][NextWorker]_vars

\* the worker under fair scheduling: a queued task is picked up, and a send in
\* progress ends (with a hash or with one of the adapter's errors)
NextLive ==
    \/ \E d \in 1..MaxChain : ChainReceive(d)
    \/ check_deposit_status
    \/ \E t \in TxIds, a \in Amounts : create_check(t, "withdrawal", a, TRUE)
    \/ \E t \in TxIds : create_commit(t)
    \/ \E t \in TxIds : pw_load(t)
    \/ \E t \in TxIds : pw_success(t)
    \/ \E t \in TxIds, cause \in SendCauses : pw_error(t, cause)

SpecLive ==
    /\ Init
    /\ [][NextLive]_vars
    /\ \A t \in TxIds :
          /\ WF_vars(pw_load(t))
          /\ WF_vars(pw_success(t) \/ \E cause \in SendCauses : pw_error(t, cause))

\* requests and the worker while the limit's period runs out
NextLimit ==
    \/ \E d \in 1..MaxChain : ChainReceive(d)
    \/ check_deposit_status
    \/ reset_at_passes
    \/ \E t \in TxIds, a \in Amounts : create_check(t, "withdrawal", a, TRUE)
    \/ \E kind \in {"withdrawal", "deposit"}, a \in Amounts, valid \in BOOLEAN :
          create_reject(kind, a, valid)
    \/ \E t \in TxIds : create_commit(t)
    \/ \E t \in TxIds : pw_load(t)
    \/ \E t \in TxIds : pw_success(t)
    \/ \E t \in TxIds : pw_failure(t)

SpecLimit == Init /\ [][NextLimit]_vars

\* withdrawal requests whose record creation can fail
NextCreate ==
    \/ \E d \in 1..MaxChain : ChainReceive(d)
    \/ check_deposit_status
    \/ \E t \in TxIds, a \in Amounts : create_check(t, "withdrawal", a, TRUE)
    \/ \E t \in TxIds : create_commit(t)
    \/ \E t \in TxIds : create_record_fails(t)
    \/ \E t \in TxIds : cancel_check(t)
    \/ \E t \in TxIds, x \in {NoHash, Hash} : cancel_apply(t, x)

SpecCreate == Init /\ [][NextCreate]_vars

\* ---- BlockchainManager._send_eth_transaction, concurrent calls ----

\* the transaction is built: its nonce is the number of transactions of the
\* hot-wallet account the node has in its latest block
send_build(t) ==
    /\ hot.nonce[t] = -1
    /\ hot' = [hot EXCEPT !.nonce[t] = hot.count]
    /\ UNCHANGED <<wallet, limit, tx, cr, cn, task, chain, da, err, released, node, dlv, addrs>>

\* the transaction is signed and the node takes it into its pool
send_sign(t) ==
    /\ hot.nonce[t] >= hot.count
    /\ ~hot.signed[t]
    /\ hot' = [hot EXCEPT !.signed[t] = TRUE]
    /\ UNCHANGED <<wallet, limit, tx, cr, cn, task, chain, da, err, released, node, dlv, addrs>>

\* the node refuses the raw transaction (nonce too low, or a transaction with
\* this nonce is in its pool and the new one does not outbid it): the call
\* raises ConnectionError and the task builds a new transaction on its retry
send_refused(t) ==
    /\ hot.nonce[t] >= 0
    /\ ~hot.signed[t]
    /\ \/ hot.nonce[t] < hot.count
       \/ \E u \in Sends \ {t} : hot.signed[u] /\ hot.nonce[u] = hot.nonce[t]
    /\ hot' = [hot EXCEPT !.nonce[t] = -1]
    /\ UNCHANGED <<wallet, limit, tx, cr, cn, task, chain, da, err, released, node, dlv, addrs>>

\* a block includes the pooled transaction that carries the account's next nonce
hot_includes(t) ==
    /\ hot.signed[t]
    /\ ~hot.included[t]
    /\ hot.nonce[t] = hot.count
    /\ hot' = [hot EXCEPT !.included[t] = TRUE, !.count = @ + 1]
    /\ UNCHANGED <<wallet, limit, tx, cr, cn, task, chain, da, err, released, node, dlv, addrs>>

NextSend ==
    \/ \E t \in Sends : send_build(t)
    \/ \E t \in Sends : send_sign(t)
    \/ \E t \in Sends : send_refused(t)
    \/ \E t \in Sends : hot_includes(t)

SpecSend == Init /\ [][NextSend]_vars

\* ---- DepositAddressViewSet.create ----

\* DepositAddress.objects.filter(user, currency, is_active=True).count()
active_addresses == Cardinality({i \in AddressIds : addrs.row[i] = "active"})

\* serializer.is_valid: the request passes the limit on active addresses
address_validate ==
    /\ addrs.checked < MaxInFlight
    /\ ~(active_addresses >= max_active_addresses)
    /\ addrs' = [addrs EXCEPT !.checked = @ + 1]
    /\ UNCHANGED <<wallet, limit, tx, cr, cn, task, chain, da, err, released, node, hot, dlv>>

\* generate_address and DepositAddress.objects.create(is_active=True)
address_create(i) ==
    /\ addrs.checked > 0
    /\ addrs.row[i] = "none"
    /\ \A j \in AddressIds : j < i => addrs.row[j] # "none"
    /\ addrs' = [addrs EXCEPT !.row[i] = "active", !.checked = @ - 1]
    /\ UNCHANGED <<wallet, limit, tx, cr, cn, task, chain, da, err, released, node, hot, dlv>>

\* DepositAddressAdmin.archive_addresses on one of the user's rows
address_archive(i) ==
    /\ addrs.row[i] = "active"
    /\ addrs' = [addrs EXCEPT !.row[i] = "archived"]
    /\ UNCHANGED <<wallet, limit, tx, cr, cn, task, chain, da, err, released, node, hot, dlv>>

NextAddress ==
    \/ address_validate
    \/ \E i \in AddressIds : address_create(i)
    \/ \E i \in AddressIds : address_archive(i)

SpecAddress == Init /\ [][NextAddress]_vars

\* ---- process_withdrawal of one row, delivered to several workers ----

\* Transaction.objects.get and the status check of the delivery
dl_load(w) ==
    /\ dlv.pc[w] = "queued"
    /\ dlv' = [dlv EXCEPT !.pc[w] = IF tx[1].status # "pending" THEN "done" ELSE "sending"]
    /\ UNCHANGED <<wallet, limit, tx, cr, cn, task, chain, da, err, released, node, hot, addrs>>

\* send_transaction returns a hash: the success path
dl_success(w) ==
    /\ dlv.pc[w] = "sending"
    /\ LET a == tx[1].amount
       IN /\ wallet' = settle_locked(wallet, a)
          /\ tx' = [tx EXCEPT ![1] = [status |-> "completed", amount |-> a, txid |-> Hash]]
    /\ dlv' = [dlv EXCEPT !.pc[w] = "done", !.sent = @ + 1]
    /\ UNCHANGED <<limit, cr, cn, task, chain, da, err, released, node, hot, addrs>>

\* send_transaction raises: retry of a transient error, failure path otherwise
dl_error(w, cause) ==
    /\ dlv.pc[w] = "sending"
    /\ IF is_transient(send_exception(cause))
       THEN /\ dlv' = IF dlv.retries[w] + 1 > max_retries
                       THEN [dlv EXCEPT !.pc[w] = "dead"]
                       ELSE [dlv EXCEPT !.pc[w] = "queued", !.retries[w] = @ + 1]
            /\ UNCHANGED <<wallet, tx>>
       ELSE LET a == tx[1].amount
                w2 == release_locked_to_balance(wallet, a)
            IN /\ InBounds(w2)
               /\ wallet' = w2
               /\ tx' = [tx EXCEPT ![1] = [status |-> "failed", amount |-> a,
                                           txid |-> NoHash]]
               /\ dlv' = [dlv EXCEPT !.pc[w] = "done"]
    /\ UNCHANGED <<limit, cr, cn, task, chain, da, err, released, node, hot, addrs>>

\* an accepted withdrawal of 1 whose task the broker hands to every worker
InitDeliver ==
    /\ wallet = [balance |-> 1, locked |-> 1]
    /\ limit = [limit_24h |-> LimitAmount, used_24h |-> 1, expired |-> FALSE,
                remaining |-> LimitAmount - 1]
    /\ tx = [t \in TxIds |-> IF t = 1
                              THEN [status |-> "pending", amount |-> 1, txid |-> NoHash]
                              ELSE NoRow]
    /\ cr = [t \in TxIds |-> IF t = 1 THEN DoneCreate ELSE IdleCreate]
    /\ cn = [t \in TxIds |-> [x \in {NoHash, Hash} |-> 0]]
    /\ task = [t \in TxIds |-> NoTask]
    /\ chain = 1
    /\ da = [is_active |-> TRUE, reusable |-> TRUE, primary |-> TRUE,
             interval |-> check_interval,
             is_archived |-> FALSE, local |-> TRUE, pc |-> "poll",
             observed |-> 0]
    /\ err = NoError
    /\ released = [t \in TxIds |-> 0]
    /\ node = [currency |-> "ETH", required |-> confirmations_required, mined |-> FALSE,
               reverted |-> FALSE, confirmations |-> 0, answer |-> "none"]
    /\ hot = NoSends
    /\ dlv = [NoDeliveries EXCEPT !.pc = [w \in Sends |-> "queued"]]
    /\ addrs = NoAddresses

NextDeliver ==
    \/ \E w \in Sends : dl_load(w)
    \/ \E w \in Sends : dl_success(w)
    \/ \E w \in Sends, cause \in SendCauses : dl_error(w, cause)

SpecDeliver == InitDeliver /\ [][NextDeliver]_vars

\* ---- BlockchainManager.get_transaction_status ----

\* the sent transaction is included in a block; an Ethereum transaction may
\* revert. bitcoind counts the including block as the first confirmation, the
\* Ethereum adapter computes current_block - blockNumber
node_mines(reverts) ==
    /\ ~node.mined
    /\ reverts => node.currency = "ETH"
    /\ node' = [node EXCEPT !.mined = TRUE, !.reverted = reverts,
                            !.confirmations = IF node.currency = "BTC" THEN 1 ELSE 0,
                            !.answer = "none"]
    /\ UNCHANGED <<wallet, limit, tx, cr, cn, task, chain, da, err, released, hot, dlv, addrs>>

\* a further block is appended to the chain
node_block ==
    /\ node.mined
    /\ node.confirmations < MaxConfirmations
    /\ node' = [node EXCEPT !.confirmations = @ + 1, !.answer = "none"]
    /\ UNCHANGED <<wallet, limit, tx, cr, cn, task, chain, da, err, released, hot, dlv, addrs>>

_get_btc_transaction_status(n) ==
    IF n.confirmations <= 0 THEN "pending" ELSE "confirmed"

_get_eth_transaction_status(n) ==
    IF ~n.mined THEN "pending"
    ELSE IF n.reverted THEN "failed"
    ELSE IF n.confirmations >= eth_confirmations THEN "confirmed"
    ELSE "pending"

get_transaction_status(n) ==
    IF n.currency = "BTC"
    THEN _get_btc_transaction_status(n)
    ELSE _get_eth_transaction_status(n)

\* a caller asks for the status of the sent transaction
get_transaction_status_call ==
    /\ node.answer = "none"
    /\ node' = [node EXCEPT !.answer = get_transaction_status(node)]
    /\ UNCHANGED <<wallet, limit, tx, cr, cn, task, chain, da, err, released, hot, dlv, addrs>>

\* a sent transaction of either chain, under any configured depth
InitStatus ==
    /\ wallet = [balance |-> 0, locked |-> 0]
    /\ limit = [limit_24h |-> LimitAmount, used_24h |-> 0, expired |-> FALSE,
                remaining |-> LimitAmount]
    /\ tx = [t \in TxIds |-> NoRow]
    /\ cr = [t \in TxIds |-> IdleCreate]
    /\ cn = [t \in TxIds |-> [x \in {NoHash, Hash} |-> 0]]
    /\ task = [t \in TxIds |-> NoTask]
    /\ chain = 0
    /\ da = [is_active |-> TRUE, reusable |-> TRUE, primary |-> TRUE,
             interval |-> check_interval,
             is_archived |-> FALSE, local |-> TRUE, pc |-> "poll",
             observed |-> 0]
    /\ err = NoError
    /\ released = [t \in TxIds |-> 0]
    /\ \E c \in {"BTC", "ETH"}, r \in 1..MaxConfirmations :
          node = [currency |-> c, required |-> r, mined |-> FALSE,
                  reverted |-> FALSE, confirmations |-> 0, answer |-> "none"]
    /\ hot = NoSends
    /\ dlv = NoDeliveries
    /\ addrs = NoAddresses

NextStatus ==
    \/ \E reverts \in BOOLEAN : node_mines(reverts)
    \/ node_block
    \/ get_transaction_status_call

SpecStatus == InitStatus /\ [][NextStatus]_vars

\* the deposit monitor on any kind of address, next to the wallet list view and
\* the withdrawal requests that write the same wallet row
InitDeposit ==
    /\ wallet = [balance |-> 0, locked |-> 0]
    /\ limit = [limit_24h |-> LimitAmount, used_24h |-> 0, expired |-> FALSE,
                remaining |-> LimitAmount]
    /\ tx = [t \in TxIds |-> NoRow]
    /\ cr = [t \in TxIds |-> IdleCreate]
    /\ cn = [t \in TxIds |-> [x \in {NoHash, Hash} |-> 0]]
    /\ task = [t \in TxIds |-> NoTask]
    /\ chain = 0
    /\ \E r, p \in BOOLEAN :
          da = [is_active |-> TRUE, reusable |-> r, primary |-> p,
                interval |-> check_interval,
             is_archived |-> FALSE, local |-> TRUE, pc |-> "poll",
             observed |-> 0]
    /\ err = NoError
    /\ released = [t \in TxIds |-> 0]
    /\ node = [currency |-> "ETH", required |-> confirmations_required, mined |-> FALSE,
               reverted |-> FALSE, confirmations |-> 0, answer |-> "none"]
    /\ hot = NoSends
    /\ dlv = NoDeliveries
    /\ addrs = NoAddresses

NextDeposit ==
    \/ \E d \in 1..MaxChain : ChainReceive(d)
    \/ check_deposit_status
    \/ check_deposit_status_error
    \/ _sync_blockchain_balances
    \/ \E t \in TxIds, a \in Amounts : create_check(t, "withdrawal", a, TRUE)
    \/ \E t \in TxIds : create_commit(t)

SpecDeposit == InitDeposit /\ [][NextDeposit]_vars

\* the monitor's loop under fair scheduling of the task, and the operator
NextMonitor ==
    \/ \E d \in 1..MaxChain : ChainReceive(d)
    \/ loop_poll
    \/ loop_error
    \/ loop_wake
    \/ archive_addresses

SpecMonitor ==
    /\ InitDeposit
    /\ [][NextMonitor]_vars
    /\ WF_vars(loop_poll \/ loop_wake)

\* ---- claims ----

Terminal == {"completed", "failed", "canceled"}

\* the worker's success path ran on a pending row
Completes(t) ==
    /\ task[t].pc = "sending" /\ task'[t].pc = "done"
    /\ tx[t].status = "pending" /\ tx'[t].status = "completed"

\* the worker's failure path ran on a pending row
Fails(t) ==
    /\ task[t].pc = "sending" /\ task'[t].pc = "done"
    /\ tx[t].status = "pending" /\ tx'[t].status = "failed"

\* a cancel request wrote 'canceled' over a pending row
Cancels(t) == tx[t].status = "pending" /\ tx'[t].status = "canceled"

\* create wrote a new row
Creates(t) == tx[t].status = "none" /\ tx'[t].status # "none"

\* C1: in every reachable state the wallet satisfies 0 <= locked <= balance.
C1_LockedWithinBalance == 0 <= wallet.locked /\ wallet.locked <= wallet.balance

\* C2: when process_withdrawal gets a hash for a pending withdrawal of amount a
\* on a wallet (b, l), the row becomes completed with the hash stored and the
\* wallet becomes (b - a, l - a).
C2_SuccessSettles ==
    [][\A t \in TxIds : Completes(t) =>
          /\ tx'[t].txid = Hash
          /\ wallet' = [balance |-> wallet.balance - tx[t].amount,
                        locked |-> wallet.locked - tx[t].amount]]_vars

\* C3: when the adapter raises a permanent error for a pending withdrawal of
\* amount a, the row becomes failed, locked drops by a and balance is what it
\* was before the withdrawal was requested (the request left it unchanged).
C3_FailureRestores ==
    [][\A t \in TxIds : Fails(t) =>
          wallet' = [balance |-> wallet.balance,
                     locked |-> wallet.locked - tx[t].amount]]_vars

\* C4: a withdrawal of X that is cancelled while pending leaves balance and
\* locked at their values before the request: the request made them
\* (b, l + X), so the cancel has to make them (b, l).
C4_CancelRoundTrip ==
    [][\A t \in TxIds : Cancels(t) =>
          wallet' = [balance |-> wallet.balance,
                     locked |-> wallet.locked - tx[t].amount]]_vars

\* C5: an accepted withdrawal request of amount a (a >= minimum, within the
\* limit, a <= available) on a wallet (b, l), as the request read it, leaves
\* the wallet at (b, l + a) and creates exactly one pending row for amount a.
C5_AcceptedRequest ==
    [][\A t \in TxIds : Creates(t) =>
          /\ cr[t].pc = "checked"
          /\ cr[t].amount >= MinWithdrawal
          /\ cr[t].amount <= cr[t].balance - cr[t].locked
          /\ cr[t].used + cr[t].amount <= limit.limit_24h
          /\ wallet' = [balance |-> cr[t].balance, locked |-> cr[t].locked + cr[t].amount]
          /\ tx'[t] = [status |-> "pending", amount |-> cr[t].amount, txid |-> NoHash]
          /\ \A u \in TxIds \ {t} : tx'[u] = tx[u]]_vars

\* a state right after an accepted request for the whole available balance
C5_Witness ==
    \E t \in TxIds :
        /\ tx[t].status = "pending" /\ tx[t].amount = MaxAmount
        /\ cr[t].pc = "done"
        /\ wallet = [balance |-> MaxAmount, locked |-> MaxAmount]

\* C6: a request for exactly the available balance is accepted when minimum
\* and limit permit; a request for the available balance plus one unit is
\* rejected as insufficient, and a rejected request changes neither the
\* wallet nor the rows.
C6_Boundary ==
    [][/\ \A a \in Amounts :
            /\ (a = available_balance(wallet) /\ a >= MinWithdrawal
                    /\ limit.used_24h + a <= limit.limit_24h)
               => create_error("withdrawal", a, TRUE, wallet, limit) = "ok"
            /\ a = available_balance(wallet) + 1
               => \A valid \in BOOLEAN :
                     create_error("withdrawal", a, valid, wallet, limit) = "insufficient"
       /\ \A t \in TxIds : (cr[t].pc = "idle" /\ cr'[t].pc = "checked")
            => cr'[t].amount <= available_balance(wallet)
       /\ (err' # err /\ err'.op = "create")
            => /\ wallet' = wallet /\ tx' = tx /\ limit' = limit /\ task' = task
               /\ err'.code = "insufficient" => err'.amount > available_balance(wallet)
               /\ err'.amount > available_balance(wallet)
                    => err'.code \in {"insufficient", "deposit"}]_vars

\* a request for the whole available balance was accepted, and one for a unit
\* more has just been answered "insufficient"
C6_Witness ==
    \E t \in TxIds :
        /\ cr[t].pc = "checked"
        /\ cr[t].amount = cr[t].balance - cr[t].locked
        /\ err.op = "create" /\ err.code = "insufficient"
        /\ err.amount = available_balance(wallet) + 1

\* C7: the completed transition applied a second time to a withdrawal (a
\* confirmation seen after process_withdrawal completed it) leaves the wallet
\* as it was.
C7_CompletionIdempotent ==
    [][\A t \in TxIds :
          (tx[t].status = "completed" /\ tx'[t] # tx[t]
              /\ tx'[t].status \in {"completed", "confirmed"})
          => wallet' = wallet]_vars

\* C8: a withdrawal's amount is taken out of locked at most once.
C8_ReleasedOnce == \A t \in TxIds : released[t] <= 1

\* C9: once a row is completed, failed or canceled, its status never changes.
C9_TerminalFinal ==
    [][\A t \in TxIds : tx[t].status \in Terminal => tx'[t].status = tx[t].status]_vars

AllowedEdge(s1, s2) ==
    \/ s1 = s2
    \/ s1 = "none" /\ s2 = "pending"
    \/ s1 = "pending" /\ s2 \in {"processing", "canceled"}
    \/ s1 = "processing" /\ s2 \in {"completed", "failed"}

\* C10: a withdrawal's status moves only along pending -> processing ->
\* {completed, failed} or pending -> canceled, and the adapter is never asked
\* to send a transaction whose stored status is still pending.
C10_StatusPath ==
    [][\A t \in TxIds :
          /\ AllowedEdge(tx[t].status, tx'[t].status)
          /\ task'[t].pc = "sending" => tx'[t].status # "pending"]_vars

\* C11: a cancel request for a withdrawal that the worker has picked up (it
\* passed the pending check and is at the adapter call) is rejected: no cancel
\* request passes its status check for such a withdrawal.
C11_CancelRejectedOncePickedUp ==
    [][\A t \in TxIds :
          (\E x \in {NoHash, Hash} : cn'[t][x] > cn[t][x])
          => task[t].pc # "sending"]_vars

\* C12: a withdrawal that is failed, by whatever path, has had its amount
\* taken out of the wallet's locked funds.
C12_FailedReleased ==
    \A t \in TxIds : tx[t].status = "failed" => released[t] >= 1

\* C13: a transient adapter error makes the worker retry at most max_retries
\* times, and when the retries are used up the row becomes failed.
C13_RetryCeiling ==
    [][\A t \in TxIds :
          /\ task'[t].retries <= max_retries
          /\ (task[t].pc = "sending" /\ task'[t].pc = "dead")
             => tx'[t].status = "failed"]_vars

\* the causes the specification calls permanent
PermanentCauses == {"invalid_address", "insufficient_funds", "rejected"}

\* C14: a permanent adapter error moves the withdrawal to failed at once: the
\* task ends and is not queued for another attempt.
C14_PermanentNoRetry ==
    [][\A t \in TxIds :
          (/\ task[t].pc = "sending" /\ task'[t] # task[t]
           /\ err' # err /\ err'.op = "send" /\ err'.code \in PermanentCauses)
          => (tx'[t].status = "failed" /\ task'[t].pc = "done")]_vars

C17_FailureRevertsUsage ==
    [][\A t \in TxIds :
          Fails(t) => limit'.used_24h = limit.used_24h - tx[t].amount]_vars

C19_LimitResets ==
    [][(~limit.expired /\ limit'.expired) =>
          \A a \in Amounts :
              /\ (a >= MinWithdrawal /\ a <= available_balance(wallet')
                      /\ a <= limit'.limit_24h)
                 => create_error("withdrawal", a, TRUE, wallet', limit') = "ok"
              /\ a > limit'.limit_24h
                 => create_error("withdrawal", a, TRUE, wallet', limit') # "ok"]_vars

C21_LockRolledBack ==
    [][\A t \in TxIds :
          (cr[t].pc = "checked" /\ cr'[t].pc = "idle")
          => (tx'[t].status = "none" => wallet'.locked = cr[t].locked)]_vars

\* C22: operations on one wallet are serialised: the lock of an accepted
\* request acts on the wallet as it is when the lock is stored (no update made
\* in between is lost), and the amount is covered by what is available then.
C22_WalletSerialised ==
    [][\A t \in TxIds :
          Creates(t) =>
              /\ tx'[t].amount <= available_balance(wallet)
              /\ wallet' = lock_funds(wallet, tx'[t].amount)]_vars

\* the balance of the wallet rises while the on-chain balance, the rows and the
\* requests stay as they are: the monitor (or the wallet list view) credited
Credits ==
    /\ wallet'.balance > wallet.balance
    /\ chain' = chain /\ tx' = tx /\ cr' = cr

\* C23: the monitor credits the rise of the on-chain balance once: after a
\* credit, the next poll of a still monitored address that observes the same
\* on-chain balance finds nothing to credit.
C23_SameBalanceCreditsNothing ==
    [][(Credits /\ da'.is_active) => deposited_amount(chain', wallet') <= 0]_vars

\* C24: a one-shot address is deactivated by the first poll that observes a
\* nonzero delta: the step that deactivates the address credits the wallet.
C24_DeactivatedByDeposit ==
    [][(da.is_active /\ ~da'.is_active) => wallet'.balance > wallet.balance]_vars

\* C25: the total credited never exceeds the total on-chain increase, whether
\* the address is the wallet's primary address or not (no withdrawal is
\* settled here, so the wallet's balance is the total credited).
C25_CreditedWithinChain ==
    wallet.balance <= chain

\* C26: a failed balance query is an error, not a zero: the iteration changes
\* no wallet and no transaction, the address stays monitored, and the next
\* poll comes after a delay longer than the regular interval.
C26_QueryFailureIsError ==
    [][(da'.interval # da.interval /\ da'.interval # check_interval)
          => /\ wallet' = wallet /\ tx' = tx
             /\ da'.is_active /\ da.is_active
             /\ da'.interval > check_interval]_vars

\* a query failed while uncredited funds sit on a monitored address
C26_Witness ==
    /\ da.interval = error_interval
    /\ da.is_active
    /\ chain > 0 /\ wallet.balance = 0

\* what the depth configured for the currency asks for
required_status(n) ==
    IF n.reverted THEN "failed"
    ELSE IF n.mined /\ n.confirmations >= n.required THEN "confirmed"
    ELSE "pending"

\* C27: get_transaction_status answers pending below the currency's
\* confirmations_required, confirmed at or above it, failed when reverted.
C27_StatusByRequiredDepth ==
    node.answer # "none" => node.answer = required_status(node)

\* C28: nonces of sends from the hot wallet are allocated one at a time: no two
\* sends hold the same nonce.
C28_DistinctNonces ==
    \A t, u \in Sends :
        (t # u /\ hot.nonce[t] >= 0 /\ hot.nonce[u] >= 0)
            => hot.nonce[t] # hot.nonce[u]

\* C29: under fair scheduling of the worker every accepted withdrawal
\* eventually reaches a terminal status.
C29_EventuallyTerminal ==
    \A t \in TxIds : (tx[t].status = "pending") ~> (tx[t].status \in Terminal)

InFlightAmount ==
    LET RECURSIVE Sum(_)
        Sum(n) == IF n = 0 THEN 0
                  ELSE Sum(n - 1)
                       + (IF tx[n].status \in {"pending", "processing"}
                          THEN tx[n].amount ELSE 0)
    IN Sum(MaxTx)

\* C31: the wallet's locked amount is the sum of the amounts of its withdrawals
\* in status pending or processing.
C31_LockedBacked ==
    wallet.locked = InFlightAmount

\* C32: after every write of the limit row the stored remaining amount is the
\* limit minus the used amount.
C32_RemainingRecomputed ==
    limit.remaining = limit.limit_24h - limit.used_24h

\* the row was written by an accepted withdrawal and by a cancellation
C32_Witness ==
    /\ \E t, u \in TxIds : tx[t].status = "canceled" /\ tx[u].status = "pending"
    /\ limit.used_24h > 0
    /\ limit.remaining < limit.limit_24h

C34_DeactivatedLoopStops ==
    (da.is_archived /\ da.interval = error_interval) ~> (da.pc = "stopped")

\* C35: a settlement or release of an amount larger than the wallet's locked
\* funds leaves the wallet as it is, on the worker's success path, on its
\* failure path and on cancel.
C35_InconsistencyUntouched ==
    [][\A t \in TxIds :
          ((Completes(t) \/ Fails(t) \/ Cancels(t)) /\ wallet.locked < tx[t].amount)
              => wallet' = wallet]_vars

\* the loop completed a query and went on to its sleep or left
Polls == da.pc = "poll" /\ da'.pc # "poll"

\* C36: the monitor never credits a zero or negative amount, and a poll that
\* observes an on-chain balance not higher than the last observed one leaves
\* the wallet as it is.
C36_NoCreditWithoutRise ==
    [][Polls => /\ wallet'.balance >= wallet.balance
                /\ (chain <= da.observed => wallet' = wallet)]_vars

\* the amounts of the withdrawals that become completed in this step
CompletedNow ==
    LET RECURSIVE Sum(_)
        Sum(n) == IF n = 0 THEN 0
                  ELSE Sum(n - 1)
                       + (IF tx[n].status # "completed" /\ tx'[n].status = "completed"
                          THEN tx'[n].amount ELSE 0)
    IN Sum(MaxTx)

\* C37: ledger conservation, step by step: the balance is zero with no
\* transactions, the monitor raises it by the amount of the completed deposit
\* it creates in the same step (Credits), and every other step changes it by
\* minus the amounts of the withdrawals it completes, so that the balance stays
\* the completed deposits minus the completed withdrawals.
C37_LedgerConservation ==
    [][(~Credits \/ task' # task)
          => wallet'.balance = wallet.balance - CompletedNow]_vars

\* C38: the adapter's send succeeds at most once for one withdrawal, also when
\* its task is delivered more than once, runs on several workers or is retried.
C38_BroadcastOnce ==
    dlv.sent <= 1

\* C39: the stored status of a transaction is always one of the declared
\* states; no value of the adapter's own vocabulary is written into it.
C39_StatusDeclared ==
    \A t \in TxIds : tx[t].status \in {"none"} \cup STATUS_CHOICES

\* C40: a user never has more than five active deposit addresses for one
\* currency, concurrent creation requests included.
C40_ActiveAddressLimit ==
    active_addresses <= max_active_addresses

====
